---- MODULE Spec2Model ----
(***************************************************************************)
(* State-machine model of the Data-Broker backend: datasets, the           *)
(* refinement service, the package service and the wall clock that stamps  *)
(* created_at.  Requests are served by concurrent workers; every database  *)
(* commit is one atomic step, and a handler that reads, computes and then  *)
(* commits is split at the points where another request can commit.        *)
(*                                                                         *)
(* Scores are fixed-point numbers in units of 1/10000 (0.85 is 8500).      *)
(***************************************************************************)
EXTENDS Integers, Sequences, FiniteSets

(* ------------------------------ bounds -------------------------------- *)
\* the number of rows (datasets, refinement records, packages) a behaviour inserts
MaxRows == 4

\* the number of item paths handed to one find_duplicates call
MaxPaths == 3

\* the number of classifications handed to one aggregate_classifications call
MaxBatch == 4

(* --------------------------- program values --------------------------- *)
\* PipelineStage, in declaration order
PipelineStage == <<"ingested", "stored", "refining", "refined", "packaged", "listed", "sold">>

StageIndex(s) == CHOOSE i \in 1..Len(PipelineStage) : PipelineStage[i] = s

\* the request workers (threads of the server), each serving one request at a time
Workers == {"w1", "w2"}

\* quality_threshold values a caller may send, in 1/10000: -0.0001, 0.5, 1.5
Thresholds == {-1, 5000, 15000}

\* how refine_dataset is reached: through the HTTP route or called directly
Entries == {"route", "direct"}

\* price_usd values of update_package_for_sale
Prices == {10}

NoPrice == "none"

\* an uploaded file: what becomes of it (empty filename, disallowed
\* extension, stored, failing while being saved) and its size once on disk
File(kind, size) == [kind |-> kind, size |-> size]

\* the uploads a request may carry
FileBatches ==
    { <<>>,
      <<File("noname", 0), File("badext", 0), File("saveerr", 0)>>,
      <<File("ok", 1), File("badext", 0), File("noname", 0), File("ok", 2), File("ok", 1)>> }

VARIABLES datasets, records, packages, listings, sales, now, pc, local, last

vars == <<datasets, records, packages, listings, sales, now, pc, local, last>>

\* the marketplace tables, which only the marketplace service writes
market == <<listings, sales>>

\* ids of the datasets that exist; an id is the row's position in the table
DatasetIds == 1..Len(datasets)

\* the ids a request may name: every existing one, and one that does not exist
AnyDatasetId == 1..(Len(datasets) + 1)

AnyPackageId == 1..(Len(packages) + 1)

\* what a worker holds of the request it serves: the arguments, and what it
\* read when it loaded the Dataset object (the session does not re-read it)
NoPackage == [id |-> 0]

NoLocal == [ds |-> 0, q |-> 0, file_count |-> 0, package |-> NoPackage]

\* the response of the latest completed call: the operation and its outcome
Response(op, status) == [op |-> op, status |-> status]

(* ------------------------------ sequences ----------------------------- *)
RECURSIVE SeqSum(_)
SeqSum(s) == IF s = <<>> THEN 0 ELSE Head(s) + SeqSum(Tail(s))

(* ------------------------- refinement pipeline ------------------------ *)
\* RefinementService._score_quality: the fixed dimension scores and their mean
DimensionNames == <<"completeness", "clarity", "relevance", "format_validity", "metadata_quality">>

QualityScores == [completeness |-> 8500, clarity |-> 9000, relevance |-> 7500,
                  format_validity |-> 9500, metadata_quality |-> 6500]

ScoreQuality ==
    [scores |-> QualityScores,
     overall_score |-> SeqSum([i \in 1..Len(DimensionNames) |-> QualityScores[DimensionNames[i]]])
                         \div Len(DimensionNames)]

\* QualityScorer.__init__: the weights of the five dimensions, in 1/10000
Weights == [completeness |-> 2000, clarity |-> 2500, relevance |-> 2500,
            format_validity |-> 2000, metadata_quality |-> 1000]

\* QualityScorer.score_item: the quality score of one item, the same for all
ScoreItem(item) == 8500

\* RefinementService._deduplicate: nothing is compared, nothing is rejected
Deduplicate ==
    [duplicates_found |-> 0, method |-> "hash_and_semantic", rejected_items |-> <<>>]

\* CountPassingItems never reporting fewer than one passing item
CountPassingItemsAtLeastOne(file_count, quality_threshold, rejected_items) ==
    IF (file_count * 95) \div 100 < 1 THEN 1 ELSE (file_count * 95) \div 100

\* RefinementService._count_passing_items: int(file_count * 0.95); the
\* threshold and the rejected items are not read
CountPassingItems(file_count, quality_threshold, rejected_items) ==
    (file_count * 95) \div 100

\* RefinementService._classify_data: the fixed distributions, in 1/10000
ClassifyData ==
    [languages |-> [en |-> 9200, es |-> 800],
     modalities |-> [text |-> 10000],
     domains |-> [general |-> 7000, technical |-> 3000],
     content_types |-> [conversation |-> 5000, instructions |-> 3000, creative |-> 2000]]

\* Model.query.get(id) followed by "if not obj": is there such a row
Found(table, id) == id \in 1..Len(table)

\* RefineEntry with the route's two checks in the other order
RefineEntryThresholdFirst(table, d, q, via) ==
    IF via = "route" /\ (q < 0 \/ q > 10000) THEN "validation_error"
    ELSE IF ~Found(table, d) THEN "not_found"
    ELSE "run"

\* the checks a refine request passes before the pipeline starts.  The route
\* answers 404 for an unknown dataset, then 400 for a threshold outside
\* [0, 1]; the service method itself only looks the dataset up.
RefineEntry(table, d, q, via) ==
    IF ~Found(table, d) THEN "not_found"
    ELSE IF via = "route" /\ (q < 0 \/ q > 10000) THEN "validation_error"
    ELSE "run"

\* BuildRecord with the rejected count taken as its own 5% share
BuildRecordRejectedShare(id, d, file_count, quality_threshold, created_at) ==
    LET passed_count == CountPassingItems(file_count, quality_threshold, <<>>)
    IN [id |-> id,
        dataset_id |-> d,
        pipeline_stage |-> "full_refinement",
        quality_scores |-> ScoreQuality.scores,
        overall_quality |-> ScoreQuality.overall_score,
        duplicates_found |-> Deduplicate.duplicates_found,
        duplicate_removal_method |-> Deduplicate.method,
        classifications |-> ClassifyData,
        items_processed |-> file_count,
        items_passed |-> passed_count,
        items_rejected |-> (file_count * 5) \div 100,
        error_log |-> <<>>,
        created_at |-> created_at]

\* the RefinementRecord refine_dataset fills in; created_at is the clock
\* reading when the row is inserted; error_log is never assigned and keeps
\* the column default, the empty list
BuildRecord(id, d, file_count, quality_threshold, created_at) ==
    LET quality_results == ScoreQuality
        dedup_results == Deduplicate
        passed_count == CountPassingItems(file_count, quality_threshold,
                                          dedup_results.rejected_items)
    IN [id |-> id,
        dataset_id |-> d,
        pipeline_stage |-> "full_refinement",
        quality_scores |-> quality_results.scores,
        overall_quality |-> quality_results.overall_score,
        duplicates_found |-> dedup_results.duplicates_found,
        duplicate_removal_method |-> dedup_results.method,
        classifications |-> ClassifyData,
        items_processed |-> file_count,
        items_passed |-> passed_count,
        items_rejected |-> file_count - passed_count,
        error_log |-> <<>>,
        created_at |-> created_at]

\* RefinedDataset without the quality_score assignment
RefinedDatasetStageOnly(row, record) == [row EXCEPT !.stage = "refined"]

\* "Update dataset": the two fields refine_dataset assigns before the commit
RefinedDataset(row, record) ==
    [row EXCEPT !.stage = "refined", !.quality_score = record.overall_quality]

\* Rollback that writes what the failed run had pending
RollbackKeepsPending(committed, pending) == pending

\* a run that raises before db.session.commit() returns: the assignments to
\* the Dataset object and the added record were pending in the session and
\* are discarded with it; the tables keep what was committed
Rollback(committed, pending) == committed

\* CommitRecord keeping one row per dataset: a later run replaces the earlier row
CommitRecordUpsert(table, record) ==
    IF \E i \in 1..Len(table) : table[i].dataset_id = record.dataset_id
    THEN [i \in 1..Len(table) |->
            IF table[i].dataset_id = record.dataset_id
            THEN [record EXCEPT !.id = i] ELSE table[i]]
    ELSE Append(table, record)

\* db.session.add(record); db.session.commit(): one more row in the table
CommitRecord(table, record) == Append(table, record)

(* ------------------------------ ingestion ----------------------------- *)
\* the files of a request that ingest_files looks at: empty filenames are skipped
Considered(files) == SelectSeq(files, LAMBDA f : f.kind # "noname")

Stored(files) == SelectSeq(files, LAMBDA f : f.kind = "ok")

\* BuildIngestion counting every file that was not stored as failed, the
\* ones without a filename included
BuildIngestionCountsSkipped(d, files) ==
    LET passed == Len(Stored(files))
        failed == Len(files) - passed
    IN [dataset_id |-> d, files_passed |-> passed, files_failed |-> failed,
        files_validated |-> passed + failed]

\* the IngestionRecord of one ingest_files call: files_passed counts the
\* files saved, files_failed those refused by validate_file or failing in
\* file.save, files_validated is assigned their sum after the loop
BuildIngestion(d, files) ==
    LET passed == Len(Stored(files))
        failed == Len(SelectSeq(files, LAMBDA f : f.kind \in {"badext", "saveerr"}))
    IN [dataset_id |-> d, files_passed |-> passed, files_failed |-> failed,
        files_validated |-> passed + failed]

\* IngestedDataset that also resets the score of the replaced content
IngestedDatasetResetQuality(row, files) ==
    [row EXCEPT !.file_count = Len(Stored(files)),
                !.total_size_bytes = SeqSum([i \in 1..Len(Stored(files)) |-> Stored(files)[i].size]),
                !.quality_score = 0]

\* the dataset fields ingest_files assigns from this call's counters
IngestedDataset(row, files) ==
    [row EXCEPT !.file_count = Len(Stored(files)),
                !.total_size_bytes = SeqSum([i \in 1..Len(Stored(files)) |-> Stored(files)[i].size])]

(* ------------------------- refinement queries ------------------------- *)
\* get_refinement_status: records[-1] of filter_by(dataset_id).all(), a query
\* without ORDER BY, whose rows come in an order the store chooses: the
\* positions of the rows that may be last (0: no record, 'not_refined')
GetRefinementStatus(table, d) ==
    LET mine == {i \in 1..Len(table) : table[i].dataset_id = d}
    IN IF mine = {} THEN {0} ELSE mine

\* export_refinement_metrics: order_by(created_at.desc()).first(), the
\* positions of the rows that may come first (0: None)
ExportRefinementMetrics(table, d) ==
    LET mine == {i \in 1..Len(table) : table[i].dataset_id = d}
    IN IF mine = {} THEN {0}
       ELSE {i \in mine : \A j \in mine : table[j].created_at <= table[i].created_at}

(* ------------------------------ packaging ----------------------------- *)
\* LatestRefinement with the order of the query reversed: the oldest row
EarliestRefinement(table, d) ==
    LET mine == {i \in 1..Len(table) : table[i].dataset_id = d}
    IN IF mine = {} THEN {0}
       ELSE {i \in mine : \A j \in mine : table[i].created_at <= table[j].created_at}

\* RefinementRecord.query.filter_by(dataset_id).order_by(created_at.desc()).first():
\* the positions of the rows the query may return (rows of equal created_at
\* come in no particular order); 0 stands for None
LatestRefinement(table, d) ==
    LET mine == {i \in 1..Len(table) : table[i].dataset_id = d}
    IN IF mine = {} THEN {0}
       ELSE {i \in mine : \A j \in mine : table[j].created_at <= table[i].created_at}

\* the DataPackage create_package builds from the dataset row it loaded and
\* the refinement row it read (0: none); the id is given at the insert
BuildPackage(d, row, latest_refinement, table) ==
    [id |-> 0,
     source_dataset_id |-> d,
     items_count |-> IF latest_refinement # 0 THEN table[latest_refinement].items_passed
                     ELSE row.file_count,
     package_size_bytes |-> row.total_size_bytes,
     quality_score |-> IF latest_refinement # 0 THEN table[latest_refinement].overall_quality
                       ELSE row.quality_score,
     quality_breakdown |-> IF latest_refinement # 0 THEN table[latest_refinement].quality_scores
                           ELSE <<>>,
     classifications |-> IF latest_refinement # 0 THEN table[latest_refinement].classifications
                         ELSE <<>>,
     is_for_sale |-> FALSE,
     price_usd |-> NoPrice]

\* "Update dataset stage" of create_package
PackagedDataset(row) == [row EXCEPT !.stage = "packaged"]

\* update_package_for_sale: the package fields, and the stage of its dataset
SalePackage(row, price_usd, is_for_sale) ==
    [row EXCEPT !.is_for_sale = is_for_sale, !.price_usd = price_usd]

ListedDataset(row, is_for_sale) ==
    IF is_for_sale THEN [row EXCEPT !.stage = "listed"] ELSE row

InFlight(kinds) == Cardinality({w \in Workers : pc[w] \in kinds})

\* the rows inserted so far, and those the requests being served will insert
Rows == Len(datasets) + Len(records) + Len(packages) + InFlight({"refining", "packaging"})

(* ------------------------------- Init --------------------------------- *)
Init ==
    /\ datasets = <<>>
    /\ records = <<>>
    /\ packages = <<>>
    /\ listings = <<>>
    /\ sales = <<>>
    /\ now = 0
    /\ pc = [w \in Workers |-> "idle"]
    /\ local = [w \in Workers |-> NoLocal]
    /\ last = Response("none", "none")

(* ------------------------------ actions ------------------------------- *)
\* datetime.utcnow(), the default of created_at: a wall clock of finite
\* resolution.  A reading is the latest reading again (the clock has not moved
\* since) or a later one; only the order of readings matters, so a later
\* reading is the next integer.
UtcNow == {now, now + 1}

\* IngestionService.create_dataset
CreateDataset ==
    /\ Rows < MaxRows
    /\ datasets' = Append(datasets, [stage |-> "ingested", quality_score |-> 0,
                                      file_count |-> 0, total_size_bytes |-> 0])
    /\ last' = Response("create_dataset", "ok")
    /\ UNCHANGED <<records, packages, now, pc, local>>
    /\ UNCHANGED market

\* IngestionService.ingest_files
IngestFiles(d, files) ==
    /\ IF Found(datasets, d)
       THEN /\ datasets' = [datasets EXCEPT ![d] = IngestedDataset(datasets[d], files)]
            /\ last' = [op |-> "ingest_files", status |-> "ok", files |-> files,
                        record |-> BuildIngestion(d, files)]
       ELSE /\ last' = Response("ingest_files", "not_found")
            /\ UNCHANGED datasets
    /\ UNCHANGED <<records, packages, now, pc, local>>
    /\ UNCHANGED market

\* refine_dataset up to the point where the pipeline starts: the lookups and
\* (through the route) the threshold check
RefineLoad(w, d, q, via) ==
    /\ pc[w] = "idle"
    /\ LET entry == RefineEntry(datasets, d, q, via)
       IN IF entry = "run"
          THEN /\ Rows < MaxRows
               /\ pc' = [pc EXCEPT ![w] = "refining"]
               /\ local' = [local EXCEPT ![w] = [ds |-> d, q |-> q,
                                                 file_count |-> datasets[d].file_count,
                                                 package |-> NoPackage]]
               /\ UNCHANGED last
          ELSE /\ last' = Response("refine_dataset", entry)
               /\ UNCHANGED <<pc, local>>
    /\ UNCHANGED <<datasets, records, packages, now>>
    /\ UNCHANGED market

\* refine_dataset from scoring to the commit: the record is built from the
\* loaded dataset, the dataset row is updated and both are committed together
RefineCommit(w) ==
    /\ pc[w] = "refining"
    /\ \E created_at \in UtcNow :
          LET d == local[w].ds
              record == BuildRecord(Len(records) + 1, d, local[w].file_count,
                                    local[w].q, created_at)
          IN /\ datasets' = [datasets EXCEPT ![d] = RefinedDataset(datasets[d], record)]
             /\ records' = CommitRecord(records, record)
             /\ now' = created_at
    /\ last' = Response("refine_dataset", "ok")
    /\ pc' = [pc EXCEPT ![w] = "idle"]
    /\ local' = [local EXCEPT ![w] = NoLocal]
    /\ UNCHANGED packages
    /\ UNCHANGED market

\* PkgLoad without the stage check of create_package
PkgLoadAnyStage(w, d) ==
    /\ pc[w] = "idle"
    /\ IF ~Found(datasets, d)
       THEN /\ last' = Response("create_package", "not_found")
            /\ UNCHANGED <<pc, local>>
       ELSE /\ Rows < MaxRows
            /\ \E i \in LatestRefinement(records, d) :
                  local' = [local EXCEPT ![w] =
                              [ds |-> d, q |-> 0, file_count |-> 0,
                               package |-> BuildPackage(d, datasets[d], i, records)]]
            /\ pc' = [pc EXCEPT ![w] = "packaging"]
            /\ UNCHANGED last
    /\ UNCHANGED <<datasets, records, packages, now>>
    /\ UNCHANGED market

\* refine_dataset raising between the lookup and the end of the commit (an
\* exception in a pipeline step, or the commit failing): the route answers
\* 500, a direct caller sees the exception
RefineAbort(w) ==
    /\ pc[w] = "refining"
    /\ LET d == local[w].ds
           record == BuildRecord(Len(records) + 1, d, local[w].file_count, local[w].q, now)
       IN /\ datasets' = [datasets EXCEPT
                            ![d] = Rollback(datasets[d], RefinedDataset(datasets[d], record))]
          /\ records' = Rollback(records, CommitRecord(records, record))
    /\ last' = Response("refine_dataset", "error")
    /\ pc' = [pc EXCEPT ![w] = "idle"]
    /\ local' = [local EXCEPT ![w] = NoLocal]
    /\ UNCHANGED <<packages, now>>
    /\ UNCHANGED market

\* create_package up to the package object: the dataset lookup, the stage
\* check, the query for the latest refinement and the values taken from both
PkgLoad(w, d) ==
    /\ pc[w] = "idle"
    /\ IF ~Found(datasets, d)
       THEN /\ last' = Response("create_package", "not_found")
            /\ UNCHANGED <<pc, local>>
       ELSE IF datasets[d].stage # "refined"
       THEN /\ last' = Response("create_package", "not_refined")
            /\ UNCHANGED <<pc, local>>
       ELSE /\ Rows < MaxRows
            /\ \E i \in LatestRefinement(records, d) :
                  local' = [local EXCEPT ![w] =
                              [ds |-> d, q |-> 0, file_count |-> 0,
                               package |-> BuildPackage(d, datasets[d], i, records)]]
            /\ pc' = [pc EXCEPT ![w] = "packaging"]
            /\ UNCHANGED last
    /\ UNCHANGED <<datasets, records, packages, now>>
    /\ UNCHANGED market

\* create_package: the package is added and committed
PkgInsert(w) ==
    /\ pc[w] = "packaging"
    /\ packages' = Append(packages, [local[w].package EXCEPT !.id = Len(packages) + 1])
    /\ pc' = [pc EXCEPT ![w] = "packaged"]
    /\ local' = [local EXCEPT ![w].package = NoPackage]
    /\ UNCHANGED <<datasets, records, now, last>>
    /\ UNCHANGED market

\* create_package: the second commit, which moves the dataset to PACKAGED
PkgStage(w) ==
    /\ pc[w] = "packaged"
    /\ LET d == local[w].ds
       IN datasets' = [datasets EXCEPT ![d] = PackagedDataset(datasets[d])]
    /\ last' = Response("create_package", "ok")
    /\ pc' = [pc EXCEPT ![w] = "idle"]
    /\ local' = [local EXCEPT ![w] = NoLocal]
    /\ UNCHANGED <<records, packages, now>>
    /\ UNCHANGED market

\* PackageService.update_package_for_sale
UpdatePackageForSale(p, price_usd, is_for_sale) ==
    /\ IF Found(packages, p)
       THEN LET d == packages[p].source_dataset_id
            IN /\ packages' = [packages EXCEPT ![p] = SalePackage(packages[p], price_usd, is_for_sale)]
               /\ datasets' = [datasets EXCEPT ![d] = ListedDataset(datasets[d], is_for_sale)]
               /\ last' = Response("update_package_for_sale", "ok")
       ELSE /\ last' = Response("update_package_for_sale", "not_found")
            /\ UNCHANGED <<datasets, packages>>
    /\ UNCHANGED <<records, now, pc, local>>
    /\ UNCHANGED market

\* the server: any worker may take the next step of the request it serves
Next ==
    \/ CreateDataset
    \/ \E d \in AnyDatasetId, files \in FileBatches : IngestFiles(d, files)
    \/ \E w \in Workers, d \in AnyDatasetId, q \in Thresholds, via \in Entries :
          RefineLoad(w, d, q, via)
    \/ \E w \in Workers : RefineCommit(w)
    \/ \E w \in Workers : RefineAbort(w)
    \/ \E w \in Workers, d \in AnyDatasetId : PkgLoad(w, d)
    \/ \E w \in Workers : PkgInsert(w)
    \/ \E w \in Workers : PkgStage(w)
    \/ \E p \in AnyPackageId, price_usd \in Prices, is_for_sale \in BOOLEAN :
          UpdatePackageForSale(p, price_usd, is_for_sale)

Spec == Init /\ [][Next]_vars

\* the ingestion and refinement requests alone, served concurrently
RefineNext ==
    \/ CreateDataset
    \/ \E d \in AnyDatasetId, files \in FileBatches : IngestFiles(d, files)
    \/ \E w \in Workers, d \in AnyDatasetId, q \in Thresholds, via \in Entries :
          RefineLoad(w, d, q, via)
    \/ \E w \in Workers : RefineCommit(w)
    \/ \E w \in Workers : RefineAbort(w)

RefineSpec == Init /\ [][RefineNext]_vars

\* the same requests served one after the other: a request starts only when
\* no other request is being served
OthersIdle(w) == \A v \in Workers \ {w} : pc[v] = "idle"

AllIdle == \A v \in Workers : pc[v] = "idle"

SeqNext ==
    \/ AllIdle /\ CreateDataset
    \/ AllIdle /\ \E d \in AnyDatasetId, files \in FileBatches :
                     IngestFiles(d, files)
    \/ \E w \in Workers, d \in AnyDatasetId, q \in Thresholds, via \in Entries :
          OthersIdle(w) /\ RefineLoad(w, d, q, via)
    \/ \E w \in Workers : OthersIdle(w) /\ RefineCommit(w)
    \/ \E w \in Workers : OthersIdle(w) /\ RefineAbort(w)
    \/ \E w \in Workers, d \in AnyDatasetId : OthersIdle(w) /\ PkgLoad(w, d)
    \/ \E w \in Workers : OthersIdle(w) /\ PkgInsert(w)
    \/ \E w \in Workers : OthersIdle(w) /\ PkgStage(w)
    \/ AllIdle /\ \E p \in AnyPackageId, price_usd \in Prices, is_for_sale \in BOOLEAN :
                     UpdatePackageForSale(p, price_usd, is_for_sale)

SeqSpec == Init /\ [][SeqNext]_vars

(* ----------------------- stored items and the pipeline ---------------- *)
\* a stored file of a dataset as the pipeline would see it: its bytes
\* (content), what it is about (items of one topic are near-duplicates, of
\* similarity above the 0.95 threshold) and the quality of its content in
\* 1/10000.  The refinement service reads none of it.
Item(name, content, topic, quality) ==
    [name |-> name, content |-> content, topic |-> topic, quality |-> quality]

\* the content of a file that cannot be read (corrupt), so cannot be scored
Unreadable == "unreadable"

\* A and B byte-identical, C a near-duplicate of B, D of low quality
ScenarioItems ==
    <<Item("A", "c1", "t1", 9000), Item("B", "c1", "t1", 8000),
      Item("C", "c2", "t1", 7000), Item("D", "c3", "t2", 3000)>>

\* the contents of the dataset folder the runs below start from, in
\* ingestion order
ItemSets ==
    { <<>>,
      ScenarioItems,
      <<Item("A", "c1", "t1", 6000), Item("B", "c1", "t1", 9000)>>,
      <<Item("A", "c1", "t1", 8000), Item("B", "c2", "t2", 8000), Item("C", "c1", "t1", 8000)>>,
      <<Item("A", "c1", "t1", 8000), Item("B", "c2", "t2", 2000), Item("C", "c3", "t3", 9000)>>,
      <<Item("A", "c1", "t1", 8000), Item("B", Unreadable, "t2", 0), Item("C", "c3", "t3", 9000)>> }

\* one dataset whose files have been ingested and stored, nothing refined yet
PipelineInit ==
    /\ \E items \in ItemSets :
          datasets = <<[stage |-> "ingested", quality_score |-> 0,
                        file_count |-> Len(items), total_size_bytes |-> Len(items),
                        items |-> items]>>
    /\ records = <<>>
    /\ packages = <<>>
    /\ listings = <<>>
    /\ sales = <<>>
    /\ now = 0
    /\ pc = [w \in Workers |-> "idle"]
    /\ local = [w \in Workers |-> NoLocal]
    /\ last = Response("none", "none")

\* refinement requests on that dataset, served concurrently
PipelineNext ==
    \/ \E w \in Workers, d \in AnyDatasetId, q \in Thresholds, via \in Entries :
          RefineLoad(w, d, q, via)
    \/ \E w \in Workers : RefineCommit(w)
    \/ \E w \in Workers : RefineAbort(w)

PipelineSpec == PipelineInit /\ [][PipelineNext]_vars

(* ------------------------------ Deduplicator -------------------------- *)
\* the item paths a caller may pass; a path may occur more than once in a list
Paths == {"a", "b", "c"}

Methods == {"hash", "semantic", "hybrid"}

SeqsUpTo(S, n) == UNION {[1..k -> S] : k \in 0..n}

\* Deduplicator(similarity_threshold): the default 0.95, and 0.5
SimilarityThresholds == {9500, 5000}

\* Deduplicator.calculate_similarity: 0.5 for every pair of items
CalculateSimilarity(item1_path, item2_path) == 5000

\* FindDuplicates grouping every item with the later items of the same path,
\* without merging the groups
FindDuplicatesUnmerged(item_paths, method) ==
    [duplicate_groups |-> [i \in 1..Len(item_paths) |->
                             {j \in i..Len(item_paths) : item_paths[j] = item_paths[i]}],
     duplicates_found |-> Len(item_paths),
     method_used |-> method]

\* Deduplicator.find_duplicates: a group is a set of positions of item_paths
FindDuplicates(item_paths, method) ==
    [duplicate_groups |-> <<>>, duplicates_found |-> 0, method_used |-> method]

\* one call of find_duplicates; the response keeps the arguments and the result
FindDuplicatesCall(item_paths, method) ==
    /\ \E similarity_threshold \in SimilarityThresholds :
          last' = [op |-> "find_duplicates", status |-> "ok", item_paths |-> item_paths,
                   similarity_threshold |-> similarity_threshold,
                   result |-> FindDuplicates(item_paths, method)]
    /\ UNCHANGED <<datasets, records, packages, now, pc, local>>
    /\ UNCHANGED market

DedupNext ==
    \E item_paths \in SeqsUpTo(Paths, MaxPaths), method \in Methods :
        FindDuplicatesCall(item_paths, method)

DedupSpec == Init /\ [][DedupNext]_vars

(* ------------------------------- Classifier --------------------------- *)
\* Classifier.classify_item: the same answer for every item (None is "none")
ClassifyItem(item_path) ==
    [modality |-> "unknown", language |-> "none", domain |-> "none", content_type |-> "none"]

\* the classifications a caller may pass: what classify_item returns, and
\* classifications with labels
ItemClassifications ==
    { ClassifyItem("a"),
      [modality |-> "text", language |-> "en", domain |-> "general", content_type |-> "conversation"],
      [modality |-> "audio", language |-> "es", domain |-> "none", content_type |-> "none"] }

\* a dict without keys
EmptyDict == <<>>

\* AggregateClassifications computing shares of the batch size first
AggregateClassificationsShares(classifications) ==
    IF Len(classifications) = 0
    THEN [status |-> "ZeroDivisionError", result |-> EmptyDict]
    ELSE [status |-> "ok",
          result |-> [modalities |-> EmptyDict, languages |-> EmptyDict,
                      domains |-> EmptyDict, content_types |-> EmptyDict]]

\* Classifier.aggregate_classifications: returns normally, with four empty
\* distributions, whatever the batch
AggregateClassifications(classifications) ==
    [status |-> "ok",
     result |-> [modalities |-> EmptyDict, languages |-> EmptyDict,
                 domains |-> EmptyDict, content_types |-> EmptyDict]]

\* one call of aggregate_classifications; the response keeps the argument
AggregateCall(classifications) ==
    /\ LET outcome == AggregateClassifications(classifications)
       IN last' = [op |-> "aggregate_classifications", status |-> outcome.status,
                   classifications |-> classifications, result |-> outcome.result]
    /\ UNCHANGED <<datasets, records, packages, now, pc, local>>
    /\ UNCHANGED market

ClassifierNext ==
    \E classifications \in SeqsUpTo(ItemClassifications, MaxBatch) :
        AggregateCall(classifications)

ClassifierSpec == Init /\ [][ClassifierNext]_vars

(* ------------------------------ marketplace --------------------------- *)
\* ListingStatus
ListingStatus == {"draft", "published", "delisted", "sold_out"}

\* copies_available of a listing without a limit (the column default)
Unlimited == -1

\* the quantity a purchase request may carry (the route passes it unchecked)
Quantities == {1, 3}

\* the listings and the sales a run may insert
MaxListings == 2

MaxSales == 3

\* the MarketplaceListing create_listing builds: DRAFT, and the column
\* defaults for the two copy counters
BuildListing(package_id, price_usd) ==
    [package_id |-> package_id,
     status |-> "draft",
     copies_available |-> Unlimited,
     copies_sold |-> 0,
     price_usd |-> price_usd]

\* publish_listing: the status is assigned whatever it was
PublishedListing(row) == [row EXCEPT !.status = "published"]

\* the Sale purchase_package builds; no listing has a bulk discount
\* threshold, so the amount is price times quantity
BuildSale(listing_id, row, quantity) ==
    [listing_id |-> listing_id,
     package_id |-> row.package_id,
     quantity |-> quantity,
     amount_usd |-> row.price_usd * quantity]

\* "Update listing stats" and "Check if sold out" of purchase_package
PurchasedListing(row, quantity) ==
    LET copies_sold == row.copies_sold + quantity
    IN [row EXCEPT !.copies_sold = copies_sold,
                   !.status = IF row.copies_available > 0 /\ copies_sold >= row.copies_available
                              THEN "sold_out" ELSE row.status]

\* a dataset ingested, refined and packaged once; the marketplace holds
\* nothing yet, or one draft listing of the package limited to two copies
\* (copies_available is a column no service method assigns: a limit is set
\* in the store)
MarketInit ==
    /\ LET created == [stage |-> "ingested", quality_score |-> 0,
                       file_count |-> 0, total_size_bytes |-> 0]
           ingested == IngestedDataset(created, <<File("ok", 1), File("ok", 2), File("ok", 1)>>)
           record == BuildRecord(1, 1, ingested.file_count, 5000, 1)
           refined == RefinedDataset(ingested, record)
       IN /\ datasets = <<PackagedDataset(refined)>>
          /\ records = <<record>>
          /\ packages = <<[BuildPackage(1, refined, 1, <<record>>) EXCEPT !.id = 1]>>
    /\ \E copies_available \in {Unlimited, 2} :
          listings \in {<<>>, <<[BuildListing(1, 10) EXCEPT !.copies_available = copies_available]>>}
    /\ sales = <<>>
    /\ now = 1
    /\ pc = [w \in Workers |-> "idle"]
    /\ local = [w \in Workers |-> NoLocal]
    /\ last = Response("none", "none")

\* MarketplaceService.create_listing
CreateListing(package_id, price_usd) ==
    /\ IF Found(packages, package_id)
       THEN /\ Len(listings) < MaxListings
            /\ listings' = Append(listings, BuildListing(package_id, price_usd))
            /\ last' = Response("create_listing", "ok")
       ELSE /\ last' = Response("create_listing", "not_found")
            /\ UNCHANGED listings
    /\ UNCHANGED <<datasets, records, packages, sales, now, pc, local>>

\* MarketplaceService.publish_listing
PublishListing(listing_id) ==
    /\ IF Found(listings, listing_id)
       THEN /\ listings' = [listings EXCEPT ![listing_id] = PublishedListing(listings[listing_id])]
            /\ last' = Response("publish_listing", "ok")
       ELSE /\ last' = Response("publish_listing", "not_found")
            /\ UNCHANGED listings
    /\ UNCHANGED <<datasets, records, packages, sales, now, pc, local>>

\* MarketplaceService.purchase_package: the listing is looked up, and nothing
\* else is checked before the sale is added and the counters updated
PurchasePackage(listing_id, quantity) ==
    /\ IF Found(listings, listing_id)
       THEN /\ Len(sales) < MaxSales
            /\ sales' = Append(sales, BuildSale(listing_id, listings[listing_id], quantity))
            /\ listings' = [listings EXCEPT
                              ![listing_id] = PurchasedListing(listings[listing_id], quantity)]
            /\ last' = Response("purchase_package", "ok")
       ELSE /\ last' = Response("purchase_package", "not_found")
            /\ UNCHANGED <<listings, sales>>
    /\ UNCHANGED <<datasets, records, packages, now, pc, local>>

AnyListingId == 1..(Len(listings) + 1)

\* the marketplace requests, one at a time
MarketNext ==
    \/ \E package_id \in AnyPackageId, price_usd \in Prices : CreateListing(package_id, price_usd)
    \/ \E listing_id \in AnyListingId : PublishListing(listing_id)
    \/ \E listing_id \in AnyListingId, quantity \in Quantities : PurchasePackage(listing_id, quantity)

MarketSpec == MarketInit /\ [][MarketNext]_vars

(* ------------------------------ properties ---------------------------- *)
\* a step in which worker w's refine_dataset run commits and returns
RefineReturns(w) ==
    pc[w] = "refining" /\ pc'[w] = "idle" /\ last' = Response("refine_dataset", "ok")

\* a step in which worker w's refine_dataset run ends in an exception
RefineAborts(w) ==
    pc[w] = "refining" /\ pc'[w] = "idle" /\ last' # Response("refine_dataset", "ok")

RecordsOf(table, d) == {i \in 1..Len(table) : table[i].dataset_id = d}

\* get_refinement_history: the orders in which the rows of dataset d can come
\* back from ORDER BY created_at (rows of equal created_at in any order)
HistoryListings(table, d) ==
    LET mine == RecordsOf(table, d)
        n == Cardinality(mine)
    IN {h \in [1..n -> mine] :
          /\ \A j, k \in 1..n : j # k => h[j] # h[k]
          /\ \A j, k \in 1..n : j < k => table[h[j]].created_at <= table[h[k]].created_at}

\* C1: a refine_dataset run that succeeds on an existing dataset has committed
\* exactly one new RefinementRecord, for that dataset; the dataset's stage is
\* REFINED and its quality_score is that record's overall quality.
C1_RefineCommitsOneRecord ==
    [][\A w \in Workers : RefineReturns(w) =>
          LET d == local[w].ds
          IN /\ last' = Response("refine_dataset", "ok")
             /\ Len(records') = Len(records) + 1
             /\ SubSeq(records', 1, Len(records)) = records
             /\ records'[Len(records')].dataset_id = d
             /\ datasets'[d].stage = "refined"
             /\ datasets'[d].quality_score = records'[Len(records')].overall_quality]_vars

C1_Witness ==
    /\ last = Response("refine_dataset", "ok")
    /\ Len(records) >= 1
    /\ LET r == records[Len(records)]
       IN /\ datasets[r.dataset_id].stage = "refined"
          /\ datasets[r.dataset_id].quality_score = r.overall_quality
          /\ r.overall_quality > 0

\* C2: every committed RefinementRecord has
\* items_passed + items_rejected = items_processed.
C2_PassedPlusRejected ==
    \A i \in 1..Len(records) :
        records[i].items_passed + records[i].items_rejected = records[i].items_processed

C2_Witness ==
    \E i, j \in 1..Len(records) :
        /\ records[i].items_processed = 0
        /\ records[j].items_processed > 0
        /\ records[j].items_passed > 0
        /\ records[j].items_rejected > 0

\* C3: refine_dataset on a dataset id that does not exist answers not-found,
\* commits no RefinementRecord and changes no dataset.
C3_UnknownDatasetNotFound ==
    [][\A w \in Workers, d \in AnyDatasetId \ DatasetIds, q \in Thresholds, via \in Entries :
          RefineLoad(w, d, q, via) =>
              /\ last' = Response("refine_dataset", "not_found")
              /\ records' = records
              /\ datasets' = datasets
              /\ pc' = pc]_vars

C3_Witness ==
    /\ last = Response("refine_dataset", "not_found")
    /\ Len(records) >= 1
    /\ \E d \in DatasetIds : datasets[d].stage = "refined"

\* C4 (as claimed): a refine_dataset run whose quality_threshold is outside
\* [0, 1] ends in a validation error, adds no RefinementRecord and leaves
\* every dataset as it was, however the operation was reached.
C4_BadThresholdNoEffect ==
    [][\A w \in Workers :
          (RefineReturns(w) /\ (local[w].q < 0 \/ local[w].q > 10000)) =>
              /\ last' = Response("refine_dataset", "validation_error")
              /\ records' = records
              /\ datasets' = datasets]_vars

\* C5 (as claimed): at most one refinement run is in flight per dataset.
C5_OneRunPerDataset ==
    \A v, w \in Workers :
        (v # w /\ pc[v] = "refining" /\ pc[w] = "refining") => local[v].ds # local[w].ds

\* C6 (as claimed): while a refinement run is in progress the dataset's stage
\* is REFINING.
C6_RefiningWhileRunning ==
    \A w \in Workers : pc[w] = "refining" => datasets[local[w].ds].stage = "refining"

\* C7: no step changes or removes a committed RefinementRecord, and a run on
\* a dataset that is already REFINED succeeds and adds one record for it.
C7_HistoryAppendOnly ==
    [][/\ \A i \in 1..Len(records) : i <= Len(records') /\ records'[i] = records[i]
       /\ \A w \in Workers :
             (RefineReturns(w) /\ datasets[local[w].ds].stage = "refined") =>
                 /\ last' = Response("refine_dataset", "ok")
                 /\ Len(records') = Len(records) + 1
                 /\ records'[Len(records')].dataset_id = local[w].ds]_vars

C7_Witness ==
    /\ last = Response("refine_dataset", "ok")
    /\ \E d \in DatasetIds :
          /\ datasets[d].stage = "refined"
          /\ Cardinality(RecordsOf(records, d)) >= 2
          /\ \E i, j \in RecordsOf(records, d) :
                records[i].items_processed # records[j].items_processed

\* C8 (as claimed): the history listing of a dataset returns its records in
\* creation order, all distinct, each created strictly later than the one
\* before it.
C8_HistoryStrictlyLater ==
    \A d \in DatasetIds : \A h \in HistoryListings(records, d) :
        \A j, k \in 1..Len(h) :
            j < k => /\ h[j] < h[k]
                     /\ records[h[j]].id # records[h[k]].id
                     /\ records[h[j]].created_at < records[h[k]].created_at

\* C9: a dataset that has a RefinementRecord has the overall quality of its
\* latest record (latest by created_at) as its quality_score.
C9_QualityOfLatestRecord ==
    \A d \in DatasetIds : \A i \in LatestRefinement(records, d) :
        i # 0 => datasets[d].quality_score = records[i].overall_quality

C9_Witness ==
    \E d \in DatasetIds :
        /\ datasets[d].stage = "packaged"
        /\ \E p \in 1..Len(packages) : packages[p].source_dataset_id = d
        /\ \E i, j \in RecordsOf(records, d) : records[i].created_at < records[j].created_at
        /\ \A i \in LatestRefinement(records, d) :
              i # 0 /\ datasets[d].quality_score = records[i].overall_quality

\* C10 (as claimed): a dataset's stage moves to an earlier stage only in a
\* step of a refinement run that sets it to REFINED and commits a new
\* RefinementRecord of that dataset.
C10_StageMonotonic ==
    [][\A d \in DatasetIds :
          StageIndex(datasets'[d].stage) < StageIndex(datasets[d].stage) =>
              /\ datasets'[d].stage = "refined"
              /\ Len(records') = Len(records) + 1
              /\ records'[Len(records')].dataset_id = d]_vars

\* C11: create_package on an existing dataset whose stage is not REFINED fails
\* with an error, creates no DataPackage (none is inserted and none is left
\* to be inserted) and leaves every dataset's stage unchanged.
C11_NotRefinedNotPackaged ==
    [][\A w \in Workers, d \in DatasetIds :
          (datasets[d].stage # "refined" /\ PkgLoad(w, d)) =>
              /\ last' = Response("create_package", "not_refined")
              /\ packages' = packages
              /\ datasets' = datasets
              /\ pc' = pc]_vars

C11_Witness ==
    /\ last = Response("create_package", "not_refined")
    /\ Len(packages) >= 1
    /\ \E d \in DatasetIds : datasets[d].stage \in {"packaged", "listed"}
    /\ \E d \in DatasetIds : datasets[d].stage = "ingested"

\* a step in which worker w's create_package inserts its DataPackage
PackageInserted(w) == pc[w] = "packaging" /\ pc'[w] = "packaged"

Items(file_count) == 1..file_count

\* the number of items a run would pass under the filter rule: quality score
\* at least the threshold and not rejected by deduplication
PassingItems(file_count, quality_threshold, rejected_items) ==
    Cardinality({item \in Items(file_count) :
                    /\ ScoreItem(item) >= quality_threshold
                    /\ \A k \in 1..Len(rejected_items) : rejected_items[k] # item})

\* C13 (as claimed): the record a refinement run commits has items_passed =
\* the number of the dataset's items whose quality score is at least the
\* run's quality_threshold and that deduplication did not reject, and
\* items_rejected = the number of all its other items.
C13_PassedByThreshold ==
    [][\A w \in Workers : RefineReturns(w) =>
          LET r == records'[Len(records')]
              passing == PassingItems(local[w].file_count, local[w].q,
                                      Deduplicate.rejected_items)
          IN /\ r.items_passed = passing
             /\ r.items_rejected = local[w].file_count - passing]_vars

\* the weighted sum of a record's dimension scores, in 1/10000
WeightedSum(scores) ==
    SeqSum([i \in 1..Len(DimensionNames) |->
              scores[DimensionNames[i]] * Weights[DimensionNames[i]]]) \div 10000

\* C14 (as claimed): the weights sum to 1.0 and every committed record's
\* overall_quality is the weighted sum of its five dimension scores.
C14_WeightedAggregate ==
    /\ SeqSum([i \in 1..Len(DimensionNames) |-> Weights[DimensionNames[i]]]) = 10000
    /\ \A i \in 1..Len(records) :
          records[i].overall_quality = WeightedSum(records[i].quality_scores)

\* C15: a refinement run that ends in an error after it has started commits
\* no RefinementRecord and leaves every dataset, in particular the stage and
\* the quality_score of its own, as it was: record and stage change are
\* committed together or not at all.
C15_AbortCommitsNothing ==
    [][\A w \in Workers : RefineAborts(w) =>
          /\ last' = Response("refine_dataset", "error")
          /\ records' = records
          /\ datasets' = datasets]_vars

C15_Witness ==
    /\ last = Response("refine_dataset", "error")
    /\ \E d \in DatasetIds :
          datasets[d].stage = "ingested" /\ datasets[d].file_count > 0
                                        /\ RecordsOf(records, d) = {}
    /\ \E d \in DatasetIds :
          datasets[d].stage = "refined" /\ RecordsOf(records, d) # {}

\* C16 (as claimed): the stage and the quality_score of a dataset change only
\* in the commit of a refinement run on that dataset; create_package and
\* update_package_for_sale change neither.
C16_OnlyRefinementWritesStage ==
    [][\A d \in DatasetIds :
          (\/ datasets'[d].stage # datasets[d].stage
           \/ datasets'[d].quality_score # datasets[d].quality_score) =>
              \E w \in Workers : RefineReturns(w) /\ local[w].ds = d]_vars

\* C17 (as claimed): a step that moves a dataset's stage forward in the
\* chain moves it to the immediate successor.
C17_NoStageSkipped ==
    [][\A d \in DatasetIds :
          StageIndex(datasets'[d].stage) > StageIndex(datasets[d].stage) =>
              StageIndex(datasets'[d].stage) = StageIndex(datasets[d].stage) + 1]_vars

\* C18 (as claimed): a run with quality_threshold 0.5 on the dataset of the
\* four items A, B, C, D (A = B byte for byte, C a near-duplicate of B, D of
\* quality 0.3) records items_passed = 1 and items_rejected = 3.
C18_ScenarioCounts ==
    [][\A w \in Workers :
          (/\ RefineReturns(w)
           /\ datasets[local[w].ds].items = ScenarioItems
           /\ local[w].q = 5000) =>
              LET r == records'[Len(records')]
              IN /\ r.items_processed = 4
                 /\ r.items_passed = 1
                 /\ r.items_rejected = 3]_vars

\* the positions of the items of one dataset that are byte-identical to item i
SameContent(items, i) == {j \in 1..Len(items) : items[j].content = items[i].content}

\* the member of a group that is to survive: highest quality, earliest first
Survivor(items, group) ==
    CHOOSE i \in group :
        \A j \in group : \/ items[j].quality < items[i].quality
                         \/ (items[j].quality = items[i].quality /\ i <= j)

\* C20 (as claimed): when a run ends, of every group of duplicate items of
\* its dataset exactly one is not among the run's rejected items, and it is
\* the member of highest quality, the earliest ingested among equals.
C20_OneSurvivorPerGroup ==
    [][\A w \in Workers : RefineReturns(w) =>
          LET items == datasets[local[w].ds].items
              rejected == {Deduplicate.rejected_items[k] :
                              k \in 1..Len(Deduplicate.rejected_items)}
          IN \A i \in 1..Len(items) :
                LET group == SameContent(items, i)
                IN Cardinality(group) >= 2 =>
                      group \ rejected = {Survivor(items, group)}]_vars

C21_SemanticTransitive ==
    (last.op = "find_duplicates" /\ last.result.method_used = "semantic") =>
        LET paths == last.item_paths
            groups == last.result.duplicate_groups
            Similar(i, j) ==
                CalculateSimilarity(paths[i], paths[j]) >= last.similarity_threshold
        IN \A i, j, k \in 1..Len(paths) :
              (i # j /\ j # k /\ i # k /\ Similar(i, j) /\ Similar(j, k)) =>
                  \E g \in 1..Len(groups) : {i, j, k} \subseteq groups[g]

\* the names of the items of a dataset that cannot be scored, in item order
FailingItems(items) ==
    LET failing == SelectSeq(items, LAMBDA item : item.content = Unreadable)
    IN [k \in 1..Len(failing) |-> failing[k].name]

\* C22 (as claimed): a run on a dataset with items that cannot be scored
\* still commits its record, and the record's error log has one entry for
\* each such item, in item order.
C22_ItemFailureLogged ==
    [][\A w \in Workers : RefineReturns(w) =>
          LET r == records'[Len(records')]
          IN /\ Len(records') = Len(records) + 1
             /\ r.items_processed = Len(datasets[local[w].ds].items)
             /\ r.error_log = FailingItems(datasets[local[w].ds].items)]_vars

\* C23: aggregate_classifications on an empty batch returns normally, and
\* every distribution of the result is empty.
C23_EmptyBatchAggregates ==
    (last.op = "aggregate_classifications" /\ last.classifications = <<>>) =>
        /\ last.status = "ok"
        /\ \A property \in DOMAIN last.result : last.result[property] = EmptyDict
        /\ DOMAIN last.result = {"modalities", "languages", "domains", "content_types"}

C23_Witness ==
    /\ last.op = "aggregate_classifications"
    /\ last.classifications = <<>>
    /\ last.status = "ok"
    /\ last.result.languages = EmptyDict

\* C24 (as claimed): no step decreases a dataset's file_count or its total
\* size.
C24_ItemsAppendOnly ==
    [][\A d \in DatasetIds :
          /\ datasets'[d].file_count >= datasets[d].file_count
          /\ datasets'[d].total_size_bytes >= datasets[d].total_size_bytes]_vars

\* C25 (as claimed): for a dataset with records, get_refinement_status and
\* export_refinement_metrics report the same record, and no record of the
\* dataset has a greater created_at.
C25_StatusAndMetricsAgree ==
    \A d \in DatasetIds :
        RecordsOf(records, d) # {} =>
            \A s \in GetRefinementStatus(records, d), m \in ExportRefinementMetrics(records, d) :
                /\ s = m
                /\ \A j \in RecordsOf(records, d) :
                      records[j].created_at <= records[s].created_at

\* the packages made from dataset d
PackagesOf(table, d) == {p \in 1..Len(table) : table[p].source_dataset_id = d}

\* C26 (as claimed): a dataset has at most as many packages as refinement
\* records: one refinement yields at most one package.
C26_OnePackagePerRefinement ==
    \A d \in DatasetIds :
        Cardinality(PackagesOf(packages, d)) <= Cardinality(RecordsOf(records, d))

C28_OnlyPublishedSells ==
    [][\A l \in 1..Len(listings) :
          /\ (Len(sales') > Len(sales) /\ sales'[Len(sales')].listing_id = l)
                => listings[l].status = "published"
          /\ listings[l].status = "sold_out"
                => listings'[l].copies_sold = listings[l].copies_sold]_vars

C30_RecordCounters ==
    [][\A w \in Workers :
          /\ (pc[w] = "idle" /\ pc'[w] = "refining")
                => /\ local'[w].file_count = datasets[local'[w].ds].file_count
                   /\ local'[w].file_count >= 0
          /\ RefineReturns(w) =>
                LET r == records'[Len(records')]
                IN /\ r.items_processed = local[w].file_count
                   /\ 0 <= r.items_passed
                   /\ r.items_passed <= r.items_processed
                   /\ r.items_rejected >= 0]_vars

\* an empty dataset and a dataset of three files have both been refined
C30_Witness ==
    /\ \E i \in 1..Len(records) :
          records[i].items_processed = 0 /\ records[i].items_passed = 0
    /\ \E i \in 1..Len(records) :
          /\ records[i].items_processed = 3
          /\ records[i].items_passed = 2
          /\ records[i].items_rejected = 1
====
